---- MODULE Spec2Model ----
\* Model of src/app.py: the submit / poll / retry / address-rotation engine
\* (call_gradio_api_with_ipv6, poll_gradio_sse_status,
\* start_full_process_with_ipv6_rotation).
EXTENDS Integers, Sequences, FiniteSets, TLC

\* ------------------------------------------------------------------ bounds
MaxPool == 2        \* longest master address list that is enumerated
MaxRecords == 2     \* most records in one poll response
MaxGetTime == 1     \* longest time a poll GET that answers may take

\* ------------------------------------------------------- program constants
max_retries_per_ip == 2     \* app.py:219
max_poll_time == 300        \* app.py:142
poll_request_timeout == 30  \* app.py:157
poll_interval == 2          \* app.py:196
timeout_backoff == 5        \* app.py:200
error_backoff == 5          \* app.py:210

\* The module imports requests, random, json, time, os, fastapi, pydantic
\* (app.py:1-10); the name asyncio used at app.py:314 is bound nowhere.
asyncio_defined == FALSE

Addrs == {"2001:db8::1", "2001:db8::2"}
None == "None"

\* ------------------------------------------------------------ ErrorClassifier
\* An error text is modelled by the set of lower-cased phrases it contains;
\* the keyword test of app.py:127/138/185/205 is a non-empty intersection.
ResourceKeywords ==
    {"cuda", "gpu", "quota", "capacity", "load", "queue full",
     "too many requests", "rate limit"}

QuotaText == {"quota", "exceeded"}
PlainText == {"connection", "reset"}
Texts == {QuotaText, PlainText}

IsResourceText(text) == (text \cap ResourceKeywords) # {}

\* ------------------------------------------------------------ small helpers
Range(s) == {s[i] : i \in 1..Len(s)}

SeqsUpTo(S, n) == UNION {[1..k -> S] : k \in 0..n}

Distinct(s) == \A i, j \in 1..Len(s) : i # j => s[i] # s[j]


\* ------------------------------------------------------------------- state
VARIABLES
    IPV6_ADDRESSES,             \* master address list (global, app.py:13)
    current_ipv6_index,         \* rotation index (global, app.py:14)
    pc,                         \* position of the run's coroutine
    available_ips_for_this_run, \* the run's snapshot, shrinking (app.py:224)
    tried_ips_in_this_run,      \* addresses popped so far (app.py:230)
    current_source_ip,          \* address of the current attempt (app.py:235)
    retry_count,                \* index of the for loop (app.py:240)
    translator_event_id,        \* handle of the translate submit (app.py:246)
    image_gen_event_id,         \* handle of the render submit (app.py:278)
    prompt_for_image,           \* translation handed to render (app.py:260)
    image_result_data,          \* output of the render poll (app.py:287)
    elapsed,                    \* time.time() - start_time of the poll
    exc,                        \* exception travelling to the handlers
    result,                     \* <<>> or <<the returned dict>>
    attempts,                   \* history: one entry per attempt
    calls,                      \* history: one entry per submit / poll call
    poll_raised,                \* history: what the poll loop last caught
    translator_session_hash,    \* token of the translate job (app.py:245)
    image_gen_session_hash,     \* token of the render job (app.py:277)
    image_gen_payload,          \* render payload, first element (app.py:268)
    hashes_generated,           \* number of generate_session_hash() calls
    submitted,                  \* history: the last submit and its handle
    reply,                      \* <<>> or <<the endpoint's JSONResponse>>
    http_response,              \* history: the HTTP response read last
    runs                        \* the interleaved runs of ConcSpec

vars ==
    <<IPV6_ADDRESSES, current_ipv6_index, pc, available_ips_for_this_run,
      tried_ips_in_this_run, current_source_ip, retry_count,
      translator_event_id, image_gen_event_id, prompt_for_image,
      image_result_data, elapsed, exc, result, attempts, calls, poll_raised,
      translator_session_hash, image_gen_session_hash, image_gen_payload,
      hashes_generated, submitted, reply, http_response, runs>>

globals == <<IPV6_ADDRESSES, current_ipv6_index>>
submits ==
    <<translator_session_hash, image_gen_session_hash, image_gen_payload,
      hashes_generated, submitted>>
apart == <<reply, http_response, runs>>
pool == <<available_ips_for_this_run, tried_ips_in_this_run, current_source_ip>>
handles == <<translator_event_id, image_gen_event_id>>

\* The event ids the two remote queues hand out, and the absent event id.
Handles == {"evt1", "evt2"}
NoHandle == "no_event_id"
IssuedHandle(service) == IF service = "Translator" THEN "evt1" ELSE "evt2"

\* ---------------------------------------------------------- load / snapshot
\* load_ipv6_addresses: the non-blank lines of the file in shuffled order;
\* the file may repeat a line, and may be absent or empty.
load_ipv6_addresses == SeqsUpTo(Addrs, MaxPool)

\* Snapshot without the fallback of app.py:225-227.
SnapshotNoFallback(master) == master

\* app.py:224-227: a copy of the master list, or [None] when it is empty.
Snapshot(master) == IF master = <<>> THEN <<None>> ELSE master

\* pop() in place of pop(0): the last entry is handed out.
PopLast(ips) == ips[Len(ips)]

\* app.py:235: pop(0) returns the first entry ...
PopFirst(ips) == Head(ips)

\* ips[0] in place of pop(0): the entry is read and stays in the list.
PopRestKeepsEntry(ips) == ips

\* ... and leaves the others.
PopRest(ips) == Tail(ips)

\* app.py:113 / 148: the session is bound to the address only when it is a
\* real entry of the master list.
BindsSource(source_ip, master) ==
    source_ip # None /\ source_ip \in Range(master)

\* ----------------------------------------------------- values of the run
NoText == {}

\* app.py:98-99: a session hash is modelled by the serial number of the call
\* that generated it; two calls giving the same 26 characters are left out.
NoHash == 0
generate_session_hash(generated) == generated + 1

\* request.prompt, and the first element of the two payloads (app.py:244 and
\* app.py:267-275); the other elements play no part in the run.
persian_prompt == "p"
translation_payload == <<persian_prompt>>
RenderPayload(prompt) == <<prompt>>

\* The arguments and the result of a submit.
Submitted(service, payload, session_hash, event_id, source_ip) ==
    [service |-> service, payload |-> payload, session_hash |-> session_hash,
     event_id |-> event_id, source_ip |-> source_ip]
NoSubmit == Submitted("none", <<>>, NoHash, NoHandle, None)

NoResponse ==
    [op |-> "none", kind |-> "", text |-> NoText, event_id |-> NoHandle,
     lines |-> <<>>, took |-> 0]

\* The requests served at the same time (ConcSpec). available_ips_for_this_run
\* names a list object: ref tells which one, own is the run's own list.
NumRuns == 2
Runs == 1..NumRuns
MasterRef == "IPV6_ADDRESSES"
OwnRef == "own"

IdleRun ==
    [pc |-> "idle", ref |-> OwnRef, own |-> <<>>, tried |-> <<>>,
     current |-> None, retry |-> 0, exc |-> "none", snapshot |-> <<>>,
     outcomes |-> <<>>, visits |-> <<>>]
NoRuns == [r \in Runs |-> IdleRun]

Init ==
    /\ IPV6_ADDRESSES \in load_ipv6_addresses
    /\ current_ipv6_index = 0
    /\ pc = "idle"
    /\ available_ips_for_this_run = <<>>
    /\ tried_ips_in_this_run = <<>>
    /\ current_source_ip = None
    /\ retry_count = 0
    /\ translator_event_id = NoHandle
    /\ image_gen_event_id = NoHandle
    /\ prompt_for_image = ""
    /\ image_result_data = <<>>
    /\ elapsed = 0
    /\ exc = "none"
    /\ result = <<>>
    /\ attempts = <<>>
    /\ calls = <<>>
    /\ poll_raised = "none"
    /\ translator_session_hash = NoHash
    /\ image_gen_session_hash = NoHash
    /\ image_gen_payload = <<>>
    /\ hashes_generated = 0
    /\ submitted = NoSubmit
    /\ reply = <<>>
    /\ http_response = NoResponse
    /\ runs = NoRuns

\* ------------------------------------------------ call_gradio_api_with_ipv6
\* What the POST to /queue/join can come to: a timeout, another fault of the
\* request with its text, an HTTP error status with the text of its
\* HTTPError, or a decoded JSON body with or without an event_id and an
\* error text.
SubmitResponses(service) ==
    [kind : {"timeout"}, text : {NoText}, event_id : {NoHandle}]
    \cup [kind : {"fault", "http_error"}, text : Texts, event_id : {NoHandle}]
    \cup [kind : {"json"}, text : Texts \cup {NoText},
          event_id : {IssuedHandle(service), NoHandle}]

Returned(value) == [raised |-> "none", value |-> value]
Raised(e) == [raised |-> e, value |-> NoHandle]

\* The handler of app.py:135-140 without the keyword test.
SubmitNoKeywordTest(response) ==
    CASE response.kind = "timeout" -> Raised("ConnectionError")
      [] response.kind \in {"fault", "http_error"} ->
            Raised("ConnectionError")
      [] OTHER ->
            IF response.event_id = NoHandle
            THEN Raised("ValueError")
            ELSE Returned(response.event_id)

\* app.py:119-140. raise_for_status (app.py:120) turns an HTTP error status
\* into an HTTPError, a RequestException, which the handler of app.py:135
\* takes like any other fault of the POST.
call_gradio_api_with_ipv6(response) ==
    CASE response.kind = "timeout" -> Raised("ConnectionError")
      [] response.kind \in {"fault", "http_error"} ->
            IF IsResourceText(response.text)
            THEN Raised("GPUQuotaError")
            ELSE Raised("ConnectionError")
      [] OTHER ->
            IF response.event_id = NoHandle /\ response.text # NoText
            THEN IF IsResourceText(response.text)
                 THEN Raised("GPUQuotaError")
                 ELSE Raised("ValueError")
            ELSE IF response.event_id = NoHandle
                 THEN Raised("ValueError")
                 ELSE Returned(response.event_id)

\* --------------------------------------------------- poll_gradio_sse_status
\* One line of a poll response. line = "malformed" is a data: line whose JSON
\* does not decode. output_data is output.data (<<>> when absent or empty),
\* output_error the text of output.error (NoText when absent).
EventIds == Handles \cup {NoHandle}

RecordsOf(eid) ==
    [line : {"data"}, event_id : {eid}, msg : {"process_completed"},
       success : {TRUE}, output_data : {<<"x">>, <<"">>},
       output_error : {NoText}]
    \cup [line : {"data"}, event_id : {eid}, msg : {"process_completed"},
       success : BOOLEAN, output_data : {<<>>},
       output_error : {QuotaText, PlainText}]
    \cup [line : {"data"}, event_id : {eid},
       msg : {"process_generating", "queue_full", "estimation"},
       success : {FALSE}, output_data : {<<>>}, output_error : {NoText}]

MalformedRecord ==
    [line |-> "malformed", event_id |-> NoHandle, msg |-> "",
     success |-> FALSE, output_data |-> <<>>, output_error |-> NoText]

Records == {MalformedRecord} \cup UNION {RecordsOf(eid) : eid \in EventIds}

Responses == SeqsUpTo(Records, MaxRecords)

\* app.py:166-173: the records that decode, in the order of the response.
Decoded(r) == r.line = "data"

\* The loop of app.py:165-173 with break for continue: the first record that
\* does not decode ends the reading of the response.
RECURSIVE DecodedPrefix(_)
DecodedPrefix(response) ==
    IF response = <<>> \/ ~Decoded(Head(response)) THEN <<>>
    ELSE <<Head(response)>> \o DecodedPrefix(Tail(response))

processed_events(response) == SelectSeq(response, Decoded)

PollReturn(data) ==
    [kind |-> "return", data |-> data, exc |-> "none", cause |-> "none"]
PollRaise(e, cause) ==
    [kind |-> "raise", data |-> <<>>, exc |-> e, cause |-> cause]
PollNothing ==
    [kind |-> "none", data |-> <<>>, exc |-> "none", cause |-> "none"]

\* app.py:183: output.error, or the default text, which holds no keyword.
CompletionError(event_data) ==
    IF event_data.output_error = NoText
    THEN {"unknown", "error"}
    ELSE event_data.output_error

\* The scan without the test of app.py:177: every record is acted on.
RECURSIVE ScanEventsAnyId(_, _)
ScanEventsAnyId(events, event_id) ==
    IF events = <<>> THEN PollNothing
    ELSE LET event_data == Head(events) IN
         CASE event_data.msg = "process_completed" ->
                IF event_data.success /\ event_data.output_data # <<>>
                THEN PollReturn(event_data.output_data)
                ELSE IF IsResourceText(CompletionError(event_data))
                     THEN PollRaise("GPUQuotaError", "completed_resource")
                     ELSE PollRaise("ValueError", "completed_error")
           [] event_data.msg = "queue_full" ->
                PollRaise("GPUQuotaError", "queue_full")
           [] OTHER -> ScanEventsAnyId(Tail(events), event_id)

\* app.py:176-194: the scan of the decoded records for the handle event_id;
\* it stops at the first record that returns or raises.
RECURSIVE ScanEvents(_, _)
ScanEvents(events, event_id) ==
    IF events = <<>> THEN PollNothing
    ELSE LET event_data == Head(events) IN
         IF event_data.event_id # event_id
         THEN ScanEvents(Tail(events), event_id)
         ELSE CASE event_data.msg = "process_completed" ->
                     IF event_data.success /\ event_data.output_data # <<>>
                     THEN PollReturn(event_data.output_data)
                     ELSE IF IsResourceText(CompletionError(event_data))
                          THEN PollRaise("GPUQuotaError", "completed_resource")
                          ELSE PollRaise("ValueError", "completed_error")
                [] event_data.msg = "queue_full" ->
                     PollRaise("GPUQuotaError", "queue_full")
                [] OTHER -> ScanEvents(Tail(events), event_id)

\* app.py:203-207: the fault text str(e) decides what the poll raises.
ClassifyFault(text) ==
    IF IsResourceText(text) THEN "GPUQuotaError" ELSE "ConnectionError"

\* The handlers without the Timeout clause of app.py:198-201: Timeout is a
\* RequestException.
PollHandlerNoTimeoutClause(e) ==
    CASE e \in {"Timeout", "RequestException"} -> "reraise_classified"
      [] OTHER -> "log_and_continue"

\* The handlers without the RequestException clause of app.py:202-207.
PollHandlerNoFaultClause(e) ==
    CASE e = "Timeout" -> "retry_after_timeout"
      [] OTHER -> "log_and_continue"

\* app.py:198-210: the handler that takes an exception raised inside the try
\* block of the poll loop. Timeout and RequestException come from the GET;
\* GPUQuotaError and ValueError, raised at app.py:186/187/194 inside the same
\* try block, are neither, so `except Exception` takes them.
PollHandlerOf(e) ==
    CASE e = "Timeout" -> "retry_after_timeout"
      [] e = "RequestException" -> "reraise_classified"
      [] OTHER -> "log_and_continue"

\* The loop condition with <= for <.
PollBudgetLeftInclusive(t) == t <= max_poll_time

\* app.py:155: the loop condition.
PollBudgetLeft(t) == t < max_poll_time

\* What one answered GET comes to for each handle.
PollOutcomes ==
    [h \in Handles |->
        {ScanEvents(processed_events(response), h) : response \in Responses}]

\* ------------------------------------ start_full_process_with_ipv6_rotation
\* app.py:260: the first output element when there is one, else "".
TranslationOf(data) == IF data # <<>> /\ data[1] # "" THEN data[1] ELSE ""

\* app.py:295-299: the url of the first output element, "" standing for
\* final_image_url = None. An output element is modelled by its url.
ImageUrlOf(data) == IF data # <<>> /\ data[1] # "" THEN data[1] ELSE ""

\* app.py:303 and app.py:321
SuccessResult(url) ==
    [success |-> TRUE, imageUrl |-> url, message |-> "image created"]
FailureResult ==
    [success |-> FALSE, error |-> "all attempts failed"]
NoResult == [success |-> FALSE, error |-> ""]

JSONResponse(status_code, content) ==
    [status_code |-> status_code, content |-> content]

\* The endpoint without the try/except of app.py:336, 343-345: the
\* exception goes on to the caller.
EndpointNoHandler(returned, raised) ==
    IF raised # "none"
    THEN [status_code |-> 0, content |-> [propagated |-> raised]]
    ELSE IF returned.success
         THEN JSONResponse(200, returned)
         ELSE JSONResponse(500, [message |-> returned.error])

\* app.py:334-345: returned is what the run returned, raised the exception
\* that escaped it ("none" when it returned).
generate_image_endpoint(returned, raised) ==
    IF raised # "none"
    THEN JSONResponse(500, [message |-> "internal server error"])
    ELSE IF returned.success
         THEN JSONResponse(200, returned)
         ELSE JSONResponse(500, [message |-> returned.error])

\* The handlers without the GPUQuotaError clause of app.py:307-310.
HandlerNoQuotaClause(e, rc) ==
    IF rc < max_retries_per_ip - 1
    THEN IF asyncio_defined THEN "sleep_and_retry" ELSE "NameError"
    ELSE "break"

\* app.py:307-318: what the handlers of the attempt do with exception e in
\* iteration rc of the for loop. The retry branch evaluates asyncio.sleep.
HandlerOf(e, rc) ==
    IF e = "GPUQuotaError" THEN "break"
    ELSE IF rc < max_retries_per_ip - 1
         THEN IF asyncio_defined THEN "sleep_and_retry" ELSE "NameError"
         ELSE "break"

Attempt(ip, entry, rc) ==
    [ip |-> ip, entry |-> entry, retry |-> rc, outcome |-> "running"]

Call(op, service, ip) ==
    [op |-> op, service |-> service, source_ip |-> ip,
     bound |-> BindsSource(ip, IPV6_ADDRESSES)]

CloseAttempt(outcome) ==
    [attempts EXCEPT ![Len(attempts)].outcome = outcome]

PollPcs == {"translate_poll", "render_poll"}

Service == IF pc \in {"translate_submit", "translate_poll"}
           THEN "Translator" ELSE "ImageGenerator"

\* The render poll given the handle of the translate job.
PolledHandleOfTranslate == translator_event_id

\* the event_id argument of the poll in progress (app.py:256 / 290)
PolledHandle ==
    IF pc = "translate_poll" THEN translator_event_id ELSE image_gen_event_id

\* the session_hash argument of the poll in progress (app.py:255 / 289)
PolledToken ==
    IF pc = "translate_poll"
    THEN translator_session_hash ELSE image_gen_session_hash

\* app.py:224-230
StartRun ==
    /\ pc = "idle"
    /\ available_ips_for_this_run' = Snapshot(IPV6_ADDRESSES)
    /\ tried_ips_in_this_run' = <<>>
    /\ pc' = "while"
    /\ UNCHANGED <<globals, apart, submits, current_source_ip, retry_count,
                   handles, prompt_for_image, image_result_data, elapsed, exc,
                   result, attempts, calls, poll_raised>>

\* app.py:232-240: the while test holds; pop, and enter the for loop.
PopAddress ==
    /\ pc = "while"
    /\ available_ips_for_this_run # <<>>
    /\ current_source_ip' = PopFirst(available_ips_for_this_run)
    /\ available_ips_for_this_run' = PopRest(available_ips_for_this_run)
    /\ tried_ips_in_this_run' =
          Append(tried_ips_in_this_run, current_source_ip')
    /\ retry_count' = 0
    /\ attempts' = Append(attempts,
          Attempt(current_source_ip', Len(tried_ips_in_this_run'), 0))
    /\ pc' = "translate_submit"
    /\ UNCHANGED <<globals, apart, submits, handles, prompt_for_image,
                   image_result_data, elapsed, exc, result, calls,
                   poll_raised>>

\* app.py:232, 320-321: the while test fails.
ReturnFailure ==
    /\ pc = "while"
    /\ available_ips_for_this_run = <<>>
    /\ result' = <<FailureResult>>
    /\ pc' = "done"
    /\ UNCHANGED <<globals, apart, submits, pool, retry_count, handles,
                   prompt_for_image, image_result_data, elapsed, exc,
                   attempts, calls, poll_raised>>

\* app.py:244-252 (translate) and app.py:266-285 (render): the payload is
\* built, a session hash is generated and the job is submitted with response
\* as the outcome of the POST; when the submit returns a handle the poll is
\* entered (start_time = time.time()).
SubmitOn(response) ==
    LET r == call_gradio_api_with_ipv6(response)
        session_hash == generate_session_hash(hashes_generated)
        payload == IF pc = "translate_submit"
                   THEN translation_payload
                   ELSE RenderPayload(prompt_for_image)
        submit == Call("submit", Service, current_source_ip)
        poll == Call("poll", Service, current_source_ip)
    IN  /\ pc \in {"translate_submit", "render_submit"}
        /\ hashes_generated' = hashes_generated + 1
        /\ IF pc = "translate_submit"
           THEN /\ translator_session_hash' = session_hash
                /\ UNCHANGED <<image_gen_session_hash, image_gen_payload>>
           ELSE /\ image_gen_session_hash' = session_hash
                /\ image_gen_payload' = payload
                /\ UNCHANGED translator_session_hash
        /\ submitted' = Submitted(Service, payload, session_hash, r.value,
                                  current_source_ip)
        /\ IF r.raised = "none"
           THEN /\ IF pc = "translate_submit"
                   THEN /\ translator_event_id' = r.value
                        /\ UNCHANGED image_gen_event_id
                   ELSE /\ image_gen_event_id' = r.value
                        /\ UNCHANGED translator_event_id
                /\ pc' = IF pc = "translate_submit"
                         THEN "translate_poll" ELSE "render_poll"
                /\ calls' = calls \o <<submit, poll>>
                /\ poll_raised' = "none"
                /\ UNCHANGED exc
           ELSE /\ exc' = r.raised
                /\ pc' = "except"
                /\ calls' = Append(calls, submit)
                /\ UNCHANGED <<handles, poll_raised>>
        /\ elapsed' = 0
        /\ UNCHANGED <<globals, reply, runs, pool, retry_count,
                       prompt_for_image, image_result_data, result, attempts>>

Submit ==
    /\ \E response \in SubmitResponses(Service) : SubmitOn(response)
    /\ UNCHANGED http_response

\* app.py:155, 212: the loop test fails, the poll raises ConnectionError.
PollTimedOut ==
    /\ pc \in PollPcs
    /\ ~PollBudgetLeft(elapsed)
    /\ exc' = "ConnectionError"
    /\ pc' = "except"
    /\ UNCHANGED <<globals, apart, submits, pool, retry_count, handles,
                   prompt_for_image, image_result_data, elapsed, result,
                   attempts, calls, poll_raised>>

\* app.py:157, 198-201: the GET times out after poll_request_timeout; the
\* handler backs off and the loop goes on.
PollRequestTimeout ==
    /\ pc \in PollPcs
    /\ PollBudgetLeft(elapsed)
    /\ poll_raised' = "timeout"
    /\ IF PollHandlerOf("Timeout") = "retry_after_timeout"
       THEN /\ elapsed' = elapsed + poll_request_timeout + timeout_backoff
            /\ UNCHANGED <<pc, exc>>
       ELSE /\ exc' = "ConnectionError"
            /\ pc' = "except"
            /\ elapsed' = 0
    /\ UNCHANGED <<globals, apart, submits, pool, retry_count, handles,
                   prompt_for_image, image_result_data, result, attempts,
                   calls>>

\* app.py:157-158, 202-207: the GET fails otherwise (HTTP error status
\* included) with the text str(e); the handler classifies the text and the
\* poll raises GPUQuotaError or ConnectionError.
PollFaultOn(text) ==
    /\ pc \in PollPcs
    /\ PollBudgetLeft(elapsed)
    /\ poll_raised' = "fault"
    /\ IF PollHandlerOf("RequestException") = "reraise_classified"
       THEN /\ exc' = ClassifyFault(text)
            /\ pc' = "except"
            /\ elapsed' = 0
       ELSE /\ elapsed' = elapsed + error_backoff
            /\ UNCHANGED <<pc, exc>>
    /\ UNCHANGED <<globals, reply, runs, submits, pool, retry_count, handles,
                   prompt_for_image, image_result_data, result, attempts,
                   calls>>

PollRequestFault ==
    /\ \E text \in Texts : PollFaultOn(text)
    /\ UNCHANGED http_response

\* app.py:260 without the test of app.py:261-262.
TranslateReturnedUnchecked(data) ==
    /\ prompt_for_image' = TranslationOf(data)
    /\ exc' = exc /\ pc' = "render_submit"
    /\ UNCHANGED <<image_result_data, result, attempts>>

\* app.py:260-262: the translation is checked, render is next.
TranslateReturned(data) ==
    /\ prompt_for_image' = TranslationOf(data)
    /\ IF prompt_for_image' = ""
       THEN exc' = "ValueError" /\ pc' = "except"
       ELSE exc' = exc /\ pc' = "render_submit"
    /\ UNCHANGED <<image_result_data, result, attempts>>

\* The test of app.py:301 inverted: a usable reference raises.
RenderReturnedInverted(data) ==
    /\ image_result_data' = data
    /\ IF ImageUrlOf(data) = ""
       THEN /\ result' = <<SuccessResult(ImageUrlOf(data))>>
            /\ attempts' = CloseAttempt("success")
            /\ pc' = "done"
            /\ exc' = exc
       ELSE /\ exc' = "ValueError"
            /\ pc' = "except"
            /\ UNCHANGED <<result, attempts>>
    /\ UNCHANGED prompt_for_image

\* app.py:295-305: the image reference is extracted; return or raise.
RenderReturned(data) ==
    /\ image_result_data' = data
    /\ IF ImageUrlOf(data) # ""
       THEN /\ result' = <<SuccessResult(ImageUrlOf(data))>>
            /\ attempts' = CloseAttempt("success")
            /\ pc' = "done"
            /\ exc' = exc
       ELSE /\ exc' = "ValueError"
            /\ pc' = "except"
            /\ UNCHANGED <<result, attempts>>
    /\ UNCHANGED prompt_for_image

\* app.py:157-196, 208-210: the GET answers after d time units and the scan
\* of its records comes to o: the poll returns, or an exception raised by the
\* scan is taken by a handler of the loop, or the loop sleeps and goes on.
PollCycleOn(o, d) ==
    /\ pc \in PollPcs
    /\ PollBudgetLeft(elapsed)
    /\ CASE o.kind = "return" ->
              /\ IF pc = "translate_poll"
                 THEN TranslateReturned(o.data)
                 ELSE RenderReturned(o.data)
              /\ elapsed' = 0
              /\ UNCHANGED poll_raised
         [] o.kind = "raise" /\ PollHandlerOf(o.exc) = "log_and_continue" ->
              /\ poll_raised' = o.cause
              /\ elapsed' = elapsed + d + error_backoff
              /\ UNCHANGED <<pc, exc, prompt_for_image, image_result_data,
                             result, attempts>>
         [] o.kind = "raise" /\ PollHandlerOf(o.exc) # "log_and_continue" ->
              /\ poll_raised' = o.cause
              /\ exc' = o.exc
              /\ pc' = "except"
              /\ elapsed' = 0
              /\ UNCHANGED <<prompt_for_image, image_result_data, result,
                             attempts>>
         [] OTHER ->
              /\ poll_raised' = "none"
              /\ elapsed' = elapsed + d + poll_interval
              /\ UNCHANGED <<pc, exc, prompt_for_image, image_result_data,
                             result, attempts>>
    /\ UNCHANGED <<globals, reply, runs, submits, pool, retry_count, handles,
                   calls>>

PollResponse ==
    /\ pc \in PollPcs
    /\ \E d \in 0..MaxGetTime, o \in PollOutcomes[PolledHandle] :
          PollCycleOn(o, d)
    /\ UNCHANGED http_response

\* app.py:307-318: the handlers of the attempt.
HandleException ==
    /\ pc = "except"
    /\ LET h == HandlerOf(exc, retry_count) IN
       CASE h = "break" ->
              /\ pc' = "while"
              /\ exc' = "none"
              /\ attempts' = CloseAttempt(exc)
              /\ UNCHANGED retry_count
         [] h = "sleep_and_retry" ->
              /\ pc' = "translate_submit"
              /\ exc' = "none"
              /\ retry_count' = retry_count + 1
              /\ attempts' = Append(CloseAttempt(exc),
                    Attempt(current_source_ip, Len(tried_ips_in_this_run),
                            retry_count + 1))
         [] OTHER ->
              /\ pc' = "raised"
              /\ exc' = "NameError"
              /\ attempts' = CloseAttempt(exc)
              /\ UNCHANGED retry_count
    /\ UNCHANGED <<globals, apart, submits, pool, handles, prompt_for_image,
                   image_result_data, elapsed, result, calls, poll_raised>>

\* app.py:334-345: the run called by the endpoint is over; the endpoint
\* returns its response.
Respond ==
    /\ pc \in {"done", "raised"}
    /\ reply = <<>>
    /\ reply' = <<generate_image_endpoint(
                     IF pc = "done" THEN result[1] ELSE NoResult,
                     IF pc = "raised" THEN exc ELSE "none")>>
    /\ UNCHANGED <<globals, http_response, runs, submits, pool, pc,
                   retry_count, handles, prompt_for_image, image_result_data,
                   elapsed, exc, result, attempts, calls, poll_raised>>

Next ==
    \/ StartRun
    \/ PopAddress
    \/ ReturnFailure
    \/ Submit
    \/ PollTimedOut
    \/ PollRequestTimeout
    \/ PollRequestFault
    \/ PollResponse
    \/ HandleException
    \/ Respond

Spec == Init /\ [][Next]_vars

\* The coroutine of a request is resumed after every await and sleep.
FairSpec == Spec /\ WF_vars(Next)

\* ------------------------------------------------ the calls of one attempt
\* The first attempt of a run at stage p: the run has popped its first entry
\* and everything before p has returned (with the translation "x").
StagePcs ==
    <<"translate_submit", "translate_poll", "render_submit", "render_poll">>

StageOf(p) == CHOOSE i \in 1..4 : StagePcs[i] = p

FirstAttemptAt(p) ==
    /\ IPV6_ADDRESSES \in load_ipv6_addresses
    /\ current_ipv6_index = 0
    /\ pc = p
    /\ current_source_ip = PopFirst(Snapshot(IPV6_ADDRESSES))
    /\ available_ips_for_this_run = PopRest(Snapshot(IPV6_ADDRESSES))
    /\ tried_ips_in_this_run = <<current_source_ip>>
    /\ retry_count = 0
    /\ translator_event_id =
          IF StageOf(p) >= 2 THEN IssuedHandle("Translator") ELSE NoHandle
    /\ image_gen_event_id =
          IF StageOf(p) = 4 THEN IssuedHandle("ImageGenerator") ELSE NoHandle
    /\ prompt_for_image = IF StageOf(p) >= 3 THEN "x" ELSE ""
    /\ image_result_data = <<>>
    /\ elapsed = 0
    /\ exc = "none"
    /\ result = <<>>
    /\ attempts = <<Attempt(current_source_ip, 1, 0)>>
    /\ calls =
          (IF StageOf(p) >= 2
           THEN <<Call("submit", "Translator", current_source_ip),
                  Call("poll", "Translator", current_source_ip)>>
           ELSE <<>>)
          \o (IF StageOf(p) = 4
              THEN <<Call("submit", "ImageGenerator", current_source_ip),
                     Call("poll", "ImageGenerator", current_source_ip)>>
              ELSE <<>>)
    /\ poll_raised = "none"
    /\ hashes_generated =
          IF StageOf(p) = 1 THEN 0 ELSE IF StageOf(p) = 4 THEN 2 ELSE 1
    /\ translator_session_hash =
          IF StageOf(p) >= 2 THEN generate_session_hash(0) ELSE NoHash
    /\ image_gen_session_hash =
          IF StageOf(p) = 4 THEN generate_session_hash(1) ELSE NoHash
    /\ image_gen_payload =
          IF StageOf(p) = 4 THEN RenderPayload("x") ELSE <<>>
    /\ submitted =
          CASE StageOf(p) = 1 -> NoSubmit
            [] StageOf(p) = 4 ->
                 Submitted("ImageGenerator", RenderPayload("x"),
                           generate_session_hash(1),
                           IssuedHandle("ImageGenerator"), current_source_ip)
            [] OTHER ->
                 Submitted("Translator", translation_payload,
                           generate_session_hash(0),
                           IssuedHandle("Translator"), current_source_ip)
    /\ reply = <<>>
    /\ http_response = NoResponse
    /\ runs = NoRuns

\* ---------------------------------------------------------- one poll alone
\* poll_gradio_sse_status on its own: the translate submit (or, after a
\* translation, the render submit) of the first attempt has just returned a
\* handle; the poll runs until it returns or raises.
PollInit == \E p \in PollPcs : FirstAttemptAt(p)

PollNext ==
    \/ PollTimedOut
    \/ PollRequestTimeout
    \/ PollRequestFault
    \/ PollResponse

\* time.sleep and the GET (timeout=30) return: the loop keeps stepping.
PollSpec == PollInit /\ [][PollNext]_vars /\ WF_vars(PollNext)

\* ------------------------------------------ one submit or one cycle alone
\* call_gradio_api_with_ipv6 and one cycle of poll_gradio_sse_status applied
\* once to each HTTP outcome, which is kept in http_response. The functions
\* use the master list only for the binding test, so lists of at most one
\* entry are drawn.
IoInit ==
    /\ \E p \in Range(StagePcs) : FirstAttemptAt(p)
    /\ Len(IPV6_ADDRESSES) <= 1

SubmitRead ==
    /\ http_response = NoResponse
    /\ \E response \in SubmitResponses(Service) :
          /\ SubmitOn(response)
          /\ http_response' =
                [op |-> "submit", kind |-> response.kind,
                 text |-> response.text, event_id |-> response.event_id,
                 lines |-> <<>>, took |-> 0]

PollResponseRead ==
    /\ http_response = NoResponse
    /\ pc \in PollPcs
    /\ \E d \in 0..MaxGetTime, response \in Responses :
          /\ PollCycleOn(ScanEvents(processed_events(response), PolledHandle),
                         d)
          /\ http_response' =
                [op |-> "poll", kind |-> "answer", text |-> NoText,
                 event_id |-> PolledHandle, lines |-> response, took |-> d]

PollFaultRead ==
    /\ http_response = NoResponse
    /\ \E text \in Texts :
          /\ PollFaultOn(text)
          /\ http_response' =
                [op |-> "poll", kind |-> "fault", text |-> text,
                 event_id |-> PolledHandle, lines |-> <<>>, took |-> 0]

IoNext ==
    \/ SubmitRead
    \/ PollResponseRead
    \/ PollFaultRead

IoSpec == IoInit /\ [][IoNext]_vars

\* ------------------------------------------------- runs at the same time
\* Several requests are served at once, each by its own call of
\* start_full_process_with_ipv6_rotation; a step is taken by one run at a
\* time, in any order. An attempt (app.py:241-305: the submits, the polls and
\* the checks of one pass through the try block) is one step that ends in one
\* of AttemptOutcomes, every submit and every poll being taken to terminate.
AttemptOutcomes == {"success", "GPUQuotaError", "ValueError", "ConnectionError"}

single ==
    <<pc, available_ips_for_this_run, tried_ips_in_this_run,
      current_source_ip, retry_count, translator_event_id, image_gen_event_id,
      prompt_for_image, image_result_data, elapsed, exc, result, attempts,
      calls, poll_raised, translator_session_hash, image_gen_session_hash,
      image_gen_payload, hashes_generated, submitted, reply, http_response>>

\* `= IPV6_ADDRESSES` in place of `= list(IPV6_ADDRESSES)`: the run's name
\* is bound to the master list itself.
list_alias(ref) == ref

\* app.py:224: list(...) makes a new list object, the run's own.
list_copy(ref) == OwnRef

\* The list that available_ips_for_this_run of run r names.
ListOf(r) ==
    IF runs[r].ref = MasterRef THEN IPV6_ADDRESSES ELSE runs[r].own

\* app.py:224-230
ConcStart(r) ==
    /\ runs[r].pc = "idle"
    /\ LET ref == IF IPV6_ADDRESSES = <<>>
                  THEN OwnRef ELSE list_copy(MasterRef)
       IN  runs' = [runs EXCEPT
               ![r].pc = "while",
               ![r].ref = ref,
               ![r].own = IF ref = OwnRef
                          THEN Snapshot(IPV6_ADDRESSES) ELSE <<>>,
               ![r].tried = <<>>,
               ![r].snapshot = Snapshot(IPV6_ADDRESSES)]
    /\ UNCHANGED <<globals, single>>

\* app.py:232-240: pop(0) changes the list object the run's name is bound to.
ConcPop(r) ==
    /\ runs[r].pc = "while"
    /\ ListOf(r) # <<>>
    /\ LET ip == PopFirst(ListOf(r))
           rest == PopRest(ListOf(r))
       IN  /\ runs' = [runs EXCEPT
                 ![r].pc = "attempt",
                 ![r].own = IF runs[r].ref = OwnRef THEN rest ELSE @,
                 ![r].current = ip,
                 ![r].tried = Append(@, ip),
                 ![r].retry = 0,
                 ![r].visits = Append(@, ip)]
           /\ IPV6_ADDRESSES' =
                 IF runs[r].ref = MasterRef THEN rest ELSE IPV6_ADDRESSES
    /\ UNCHANGED <<current_ipv6_index, single>>

\* app.py:232, 320-321
ConcReturnFailure(r) ==
    /\ runs[r].pc = "while"
    /\ ListOf(r) = <<>>
    /\ runs' = [runs EXCEPT ![r].pc = "done"]
    /\ UNCHANGED <<globals, single>>

\* app.py:241-305
ConcAttempt(r) ==
    /\ runs[r].pc = "attempt"
    /\ \E o \in AttemptOutcomes :
          runs' = [runs EXCEPT
             ![r].pc = IF o = "success" THEN "done" ELSE "except",
             ![r].exc = IF o = "success" THEN @ ELSE o,
             ![r].outcomes = Append(@, o)]
    /\ UNCHANGED <<globals, single>>

\* app.py:307-318
ConcHandle(r) ==
    /\ runs[r].pc = "except"
    /\ LET h == HandlerOf(runs[r].exc, runs[r].retry) IN
       runs' = [runs EXCEPT
          ![r].pc = CASE h = "break" -> "while"
                      [] h = "sleep_and_retry" -> "attempt"
                      [] OTHER -> "raised",
          ![r].exc = IF h \in {"break", "sleep_and_retry"}
                     THEN "none" ELSE "NameError",
          ![r].retry = IF h = "sleep_and_retry" THEN @ + 1 ELSE @,
          ![r].visits = IF h = "sleep_and_retry"
                        THEN Append(@, runs[r].current) ELSE @]
    /\ UNCHANGED <<globals, single>>

ConcNext ==
    \E r \in Runs :
       \/ ConcStart(r)
       \/ ConcPop(r)
       \/ ConcReturnFailure(r)
       \/ ConcAttempt(r)
       \/ ConcHandle(r)

\* Every request is served: the event loop resumes each coroutine.
ConcSpec == Init /\ [][ConcNext]_vars /\ WF_vars(ConcNext)

\* =================================================================== claims
Snap == Snapshot(IPV6_ADDRESSES)
Started == pc # "idle"
Ended == pc \in {"done", "raised"}
LastAttempt == attempts[Len(attempts)]
GeneralFailures == {"ValueError", "ConnectionError"}

C2_Attempts ==
    \A k \in 1..Len(attempts) :
       (attempts[k].outcome = "GPUQuotaError" /\ k < Len(attempts))
          => /\ attempts[k + 1].entry = attempts[k].entry + 1
             /\ attempts[k + 1].retry = 0

C2_Handler ==
    (pc = "except" /\ exc = "GPUQuotaError")
       => /\ pc' = "while"
          /\ retry_count' = retry_count
          /\ Len(attempts') = Len(attempts)
          /\ attempts'[Len(attempts)].outcome = "GPUQuotaError"
          /\ current_source_ip' = current_source_ip
          /\ calls' = calls

C2_QuotaRotatesAtOnce == [](C2_Attempts) /\ [][C2_Handler]_vars

\* C2 witness: an attempt ended with GPUQuotaError and a later attempt runs.
C2_Witness ==
    /\ Len(attempts) >= 2
    /\ attempts[1].outcome = "GPUQuotaError"
    /\ attempts[2].entry = 2
    /\ pc = "translate_submit"

\* C3: an attempt that failed with a failure other than GPUQuotaError in the
\* first iteration of the retry loop is followed by a second attempt on the
\* same entry, so that an address whose attempts all fail that way gets
\* exactly max_retries_per_ip attempts before the next address is popped.
C3_TwoAttemptsPerAddress ==
    \A k \in 1..Len(attempts) :
       (attempts[k].outcome \in GeneralFailures /\ attempts[k].retry = 0)
          => /\ k < Len(attempts)
             /\ attempts[k + 1].entry = attempts[k].entry
             /\ attempts[k + 1].retry = 1

\* C4: no failure of a submit or a poll escapes the run: a run that is over
\* has returned a result, and a result without success is returned only
\* after every entry of the snapshot was tried, each one either left on
\* GPUQuotaError or tried max_retries_per_ip times.
C4_FailuresAbsorbed ==
    Ended =>
      /\ pc = "done"
      /\ result # <<>>
      /\ ~result[1].success =>
            /\ available_ips_for_this_run = <<>>
            /\ tried_ips_in_this_run = Snap
            /\ \A e \in 1..Len(Snap) :
                  \E k \in 1..Len(attempts) :
                     /\ attempts[k].entry = e
                     /\ \/ attempts[k].outcome = "GPUQuotaError"
                        \/ attempts[k].retry = max_retries_per_ip - 1

\* The render poll of the attempt in progress read a process_completed
\* record for its handle whose error text matches a resource keyword.
RenderQuotaSeen ==
    /\ poll_raised = "completed_resource"
    /\ calls # <<>>
    /\ calls[Len(calls)].op = "poll"
    /\ calls[Len(calls)].service = "ImageGenerator"

\* C5: once the render stage of an attempt has failed with a resource
\* message, the attempt is over as a GPUQuotaError: the orchestrator is
\* handling that error, or is back at the while test, or has started the
\* first attempt on the next entry, or has returned; it is not polling the
\* same address any more and the run has not been ended by another error.
C5_RenderQuotaRotates ==
    RenderQuotaSeen =>
      \/ pc = "except" /\ exc = "GPUQuotaError"
      \/ pc \in {"while", "done"} /\ LastAttempt.outcome \in {"GPUQuotaError", "success"}
      \/ /\ pc = "translate_submit"
         /\ Len(attempts) >= 2
         /\ attempts[Len(attempts) - 1].outcome = "GPUQuotaError"
         /\ LastAttempt.entry = attempts[Len(attempts) - 1].entry + 1

\* C6: when the record loop of a poll has read a queue_full record for its
\* handle, the poll is over and its caller is handling a GPUQuotaError.
C6_QueueFullEndsPoll ==
    poll_raised = "queue_full" =>
      /\ pc \notin PollPcs
      /\ pc = "except" => exc = "GPUQuotaError"

\* C7: when the record loop of a poll has read a process_completed record
\* without success and output for its handle, the poll is over and its
\* caller is handling a GPUQuotaError (resource text) or a ValueError.
C7_FailedCompletionEndsPoll ==
    /\ poll_raised = "completed_resource" =>
          /\ pc \notin PollPcs
          /\ pc = "except" => exc = "GPUQuotaError"
    /\ poll_raised = "completed_error" =>
          /\ pc \notin PollPcs
          /\ pc = "except" => exc = "ValueError"

\* C8: once the render poll has delivered an output with a usable image
\* reference the run is over: it has returned success with that reference,
\* and the last call made is that render poll (no later submit or poll);
\* and success is returned in no other case.
UsableImage ==
    image_result_data # <<>> /\ image_result_data[1] # ""

C8_SuccessReturnsAtOnce ==
    /\ UsableImage =>
          /\ pc = "done"
          /\ result = <<SuccessResult(image_result_data[1])>>
          /\ LastAttempt.outcome = "success"
          /\ calls[Len(calls)] =
                Call("poll", "ImageGenerator", LastAttempt.ip)
          /\ Len(calls) >= 4
          /\ calls[Len(calls) - 3] =
                Call("submit", "Translator", LastAttempt.ip)
    /\ (result # <<>> /\ result[1].success) => UsableImage

\* C8 witness: success on the first of two entries, the second never used.
C8_Witness ==
    /\ pc = "done"
    /\ result # <<>>
    /\ result[1].success
    /\ Len(IPV6_ADDRESSES) = 2
    /\ Len(available_ips_for_this_run) = 1
    /\ Len(calls) = 4

\* C9: with an empty master list a started run works on the single entry
\* None: that is its whole snapshot, every attempt and every submit and poll
\* is on None with no source address bound, and the run does not end
\* without having attempted (at least one submit was made).
C9_EmptyPoolRunsOnce ==
    (IPV6_ADDRESSES = <<>> /\ Started) =>
      /\ tried_ips_in_this_run \o available_ips_for_this_run = <<None>>
      /\ \A k \in 1..Len(attempts) :
            attempts[k].ip = None /\ attempts[k].entry = 1
      /\ \A k \in 1..Len(calls) :
            calls[k].source_ip = None /\ ~calls[k].bound
      /\ Ended => (attempts # <<>> /\ calls # <<>>)

\* C9 witness: the run over the empty master list succeeded on None.
C9_Witness ==
    /\ IPV6_ADDRESSES = <<>>
    /\ pc = "done"
    /\ result # <<>>
    /\ result[1].success
    /\ tried_ips_in_this_run = <<None>>
    /\ Len(calls) = 4

\* C10: a poll always ends; when the loop test finds that max_poll_time has
\* elapsed the next step of the poll is the ConnectionError of app.py:212,
\* so no poll cycle starts after the budget has elapsed.
C10_BudgetStep ==
    (pc \in PollPcs /\ elapsed >= max_poll_time)
       => (pc' = "except" /\ exc' = "ConnectionError" /\ elapsed' = elapsed)

C10_CycleStep ==
    (pc \in PollPcs /\ pc' = pc)
       => (elapsed < max_poll_time /\ elapsed' >= elapsed + poll_interval)

C10_PollTerminates ==
    /\ [][C10_BudgetStep]_vars
    /\ [][C10_CycleStep]_vars
    /\ (pc \in PollPcs) ~> (pc \notin PollPcs)

\* C10 witness: a poll ran out of its budget and raised the timeout error.
C10_Witness ==
    /\ pc = "except"
    /\ exc = "ConnectionError"
    /\ elapsed >= max_poll_time
    /\ poll_raised = "none"

\* C11: a timeout of the GET of one poll cycle does not end the poll: the
\* step that takes it leaves the poll in progress with the same handle and
\* session hash and no exception, poll_request_timeout + timeout_backoff
\* later; after a timeout the poll ends only by returning the output of a
\* completion record read in a later cycle (which the caller then checks) or
\* because max_poll_time has elapsed.
C11_TimeoutStep ==
    (pc \in PollPcs /\ poll_raised' = "timeout") =>
       \/ /\ pc' = pc
          /\ exc' = exc
          /\ PolledHandle' = PolledHandle
          /\ PolledToken' = PolledToken
          /\ current_source_ip' = current_source_ip
          /\ elapsed < max_poll_time
          /\ elapsed' = elapsed + poll_request_timeout + timeout_backoff
       \/ /\ poll_raised = "timeout"
          /\ pc = "translate_poll"
          /\ \/ pc' = "render_submit" /\ prompt_for_image' # ""
             \/ pc' = "except" /\ exc' = "ValueError"
                  /\ prompt_for_image' = ""
       \/ /\ poll_raised = "timeout"
          /\ pc = "render_poll"
          /\ image_result_data' # <<>>
          /\ \/ pc' = "done"
             \/ pc' = "except" /\ exc' = "ValueError"
       \/ /\ poll_raised = "timeout"
          /\ elapsed >= max_poll_time
          /\ pc' = "except"
          /\ exc' = "ConnectionError"

C11_TimeoutNotFatal == [][C11_TimeoutStep]_vars

\* C11 witness: the translate poll timed out in one cycle and returned the
\* translation of a completion record read in the next one.
C11_Witness ==
    /\ poll_raised = "timeout"
    /\ pc = "render_submit"
    /\ prompt_for_image = "x"
    /\ exc = "none"

\* ------------------------------------------------ one HTTP outcome (IoSpec)
\* The poll cycle just made read an answered GET / met a fault of the GET.
PollAnswerRead == http_response.op = "poll" /\ http_response.kind = "answer"
PollFaultMet == http_response.op = "poll" /\ http_response.kind = "fault"
SubmitMade == http_response.op = "submit"

\* The polled stage: the service of the last call logged.
PolledService == calls[Len(calls)].service

\* Record rec is a process_completed or queue_full record for handle h: the
\* records the specification lets the poll act on.
ActsOn(rec, h) ==
    /\ rec.line = "data"
    /\ rec.event_id = h
    /\ rec.msg \in {"process_completed", "queue_full"}

\* Record rec is a successful completion with output for handle h.
ValidCompletion(rec, h) ==
    /\ ActsOn(rec, h)
    /\ rec.msg = "process_completed"
    /\ rec.success
    /\ rec.output_data # <<>>

\* The poll has handed data to its caller, which has checked it.
PollReturned(data) ==
    IF PolledService = "Translator"
    THEN /\ prompt_for_image = TranslationOf(data)
         /\ \/ pc = "render_submit" /\ exc = "none"
            \/ pc = "except" /\ exc = "ValueError" /\ prompt_for_image = ""
    ELSE /\ image_result_data = data
         /\ \/ pc = "done"
            \/ pc = "except" /\ exc = "ValueError"

\* The poll is still in progress after a quiet cycle.
PollGoesOn ==
    /\ pc \in PollPcs
    /\ exc = "none"
    /\ result = <<>>
    /\ image_result_data = <<>>
    /\ elapsed = http_response.took + poll_interval

\* C12: a record of a poll response that does not decode is skipped: a
\* response holding malformed records and, for the polled handle, a
\* successful process_completed record with output as its first
\* process_completed or queue_full record, before or after the malformed
\* ones, makes the poll return that record's output data; a response whose
\* records are all malformed leaves the poll in progress.
C12_MalformedSkipped ==
    PollAnswerRead =>
      LET lines == http_response.lines
          h == http_response.event_id
      IN  /\ \A i \in 1..Len(lines) :
                ( /\ ValidCompletion(lines[i], h)
                  /\ \E j \in 1..Len(lines) : lines[j] = MalformedRecord
                  /\ \A k \in 1..(i - 1) : ~ActsOn(lines[k], h) )
                => PollReturned(lines[i].output_data)
          /\ (\A j \in 1..Len(lines) : lines[j] = MalformedRecord)
                => PollGoesOn

\* C12 witness: the translate poll read a malformed record followed by the
\* successful completion of its handle and returned the translation.
C12_Witness ==
    /\ PollAnswerRead
    /\ Len(http_response.lines) = 2
    /\ http_response.lines[1] = MalformedRecord
    /\ ValidCompletion(http_response.lines[2], http_response.event_id)
    /\ PolledService = "Translator"
    /\ pc = "render_submit"
    /\ prompt_for_image = "x"

\* C18: the poll acts only on records that carry its handle: a response in
\* which every process_completed and queue_full record carries another
\* event id, or none, leaves the poll in progress: it has neither returned
\* nor raised, whatever the other records are.
C18_OtherIdsIgnored ==
    PollAnswerRead =>
      LET lines == http_response.lines
          h == http_response.event_id
      IN  (\A i \in 1..Len(lines) : ~ActsOn(lines[i], h)) =>
             /\ PollGoesOn
             /\ poll_raised = "none"
             /\ prompt_for_image = IF pc = "render_poll" THEN "x" ELSE ""

\* C18 witness: the response held a queue_full record of another handle and
\* a successful completion without event id; the poll is still in progress.
C18_Witness ==
    /\ PollAnswerRead
    /\ Len(http_response.lines) = 2
    /\ http_response.lines[1].msg = "queue_full"
    /\ http_response.lines[1].event_id \in Handles \ {http_response.event_id}
    /\ ValidCompletion(http_response.lines[2], NoHandle)
    /\ pc \in PollPcs

\* C16: a fault of the GET of a poll cycle other than a timeout ends the
\* poll at once: the poll is over and its caller is handling a GPUQuotaError
\* when the fault text holds a resource keyword, a ConnectionError when it
\* does not; no other cycle was made (no time of the poll has passed, and
\* the last call logged is still that poll).
C16_FaultEndsPoll ==
    PollFaultMet =>
      /\ pc = "except"
      /\ exc = IF IsResourceText(http_response.text)
               THEN "GPUQuotaError" ELSE "ConnectionError"
      /\ elapsed = 0
      /\ result = <<>>
      /\ calls[Len(calls)].op = "poll"

\* C16 witness: the render poll met a connection reset and raised
\* ConnectionError.
C16_Witness ==
    /\ PollFaultMet
    /\ http_response.text = PlainText
    /\ PolledService = "ImageGenerator"
    /\ pc = "except"
    /\ exc = "ConnectionError"

\* C13 as stated: a submit answered with an HTTP error status or with a
\* body without handle fails with GPUQuotaError when the error text holds a
\* resource keyword and with ValueError when it does not.
C13_Original ==
    ( /\ SubmitMade
      /\ \/ http_response.kind = "http_error"
         \/ http_response.kind = "json" /\ http_response.event_id = NoHandle )
    => /\ pc = "except"
       /\ exc = IF IsResourceText(http_response.text)
                THEN "GPUQuotaError" ELSE "ValueError"

\* C13: a submit answered with an HTTP error status fails with GPUQuotaError
\* when the error text holds a resource keyword and with ConnectionError
\* when it does not; a submit answered with a body without handle fails with
\* GPUQuotaError when the body's error text holds a resource keyword and
\* with ValueError when it does not or when there is no error text. In none
\* of these cases is a poll entered.
C13_SubmitFailureClasses ==
    /\ (SubmitMade /\ http_response.kind = "http_error") =>
          /\ pc = "except"
          /\ exc = IF IsResourceText(http_response.text)
                   THEN "GPUQuotaError" ELSE "ConnectionError"
          /\ calls[Len(calls)].op = "submit"
    /\ ( /\ SubmitMade
         /\ http_response.kind = "json"
         /\ http_response.event_id = NoHandle ) =>
          /\ pc = "except"
          /\ exc = IF IsResourceText(http_response.text)
                   THEN "GPUQuotaError" ELSE "ValueError"
          /\ calls[Len(calls)].op = "submit"

\* C13 witness: the translate submit was answered with an HTTP error status
\* whose text holds no resource keyword and raised ConnectionError.
C13_Witness ==
    /\ SubmitMade
    /\ http_response.kind = "http_error"
    /\ http_response.text = PlainText
    /\ pc = "except"
    /\ exc = "ConnectionError"

\* C15: the endpoint answers a request once, when the run it called is over
\* and whatever way it ended: status 200 with the run's {success, imageUrl,
\* message} when the run returned success, status 500 with a body holding
\* only a message when the run returned without success or an exception
\* escaped it; the exception goes no further.
C15_OneResponse ==
    /\ Len(reply) <= 1
    /\ (Ended /\ reply = <<>>) => ENABLED Respond
    /\ reply # <<>> =>
          /\ Ended
          /\ IF pc = "done" /\ result[1].success
             THEN /\ reply[1].status_code = 200
                  /\ reply[1].content = result[1]
                  /\ DOMAIN reply[1].content =
                        {"success", "imageUrl", "message"}
             ELSE /\ reply[1].status_code = 500
                  /\ DOMAIN reply[1].content = {"message"}

\* C15 witness: an exception escaped the run and the endpoint answered 500.
C15_Witness ==
    /\ pc = "raised"
    /\ exc = "NameError"
    /\ reply # <<>>
    /\ reply[1].status_code = 500

\* The calls log shows, for a render submit at position k, the translate
\* submit and the translate poll of the same attempt right before it.
RenderAfterTranslate(k) ==
    /\ k >= 3
    /\ calls[k - 2] = Call("submit", "Translator", calls[k].source_ip)
    /\ calls[k - 1] = Call("poll", "Translator", calls[k].source_ip)

C17_Order ==
    /\ \A k \in 1..Len(calls) :
          (calls[k].op = "submit" /\ calls[k].service = "ImageGenerator")
             => RenderAfterTranslate(k)
    /\ pc \in {"render_submit", "render_poll"} =>
          /\ prompt_for_image # ""
          /\ calls # <<>>
          /\ calls[Len(calls)].source_ip = current_source_ip
          /\ calls[Len(calls)].service =
                IF pc = "render_submit" THEN "Translator" ELSE "ImageGenerator"
    /\ submitted.service = "ImageGenerator" =>
          /\ submitted.payload = RenderPayload(prompt_for_image)
          /\ image_gen_payload = submitted.payload
          /\ prompt_for_image # ""

C17_Step ==
    /\ (pc = "translate_poll" /\ pc' = "render_submit") =>
          /\ prompt_for_image' # ""
          /\ calls' = calls
    /\ ( /\ pc = "translate_poll"
         /\ pc' = "except"
         /\ elapsed < max_poll_time
         /\ poll_raised' \notin {"fault", "timeout"} ) =>
          /\ prompt_for_image' = ""
          /\ exc' = "ValueError"
          /\ calls' = calls
    /\ Len(attempts') > Len(attempts) => pc' = "translate_submit"
    /\ (pc = "translate_submit" /\ calls' # calls) =>
          calls'[Len(calls) + 1] =
             Call("submit", "Translator", current_source_ip)

\* C17: in every attempt the render job is submitted only after the
\* translate job of that attempt was submitted and its poll returned a
\* translation that is not empty, and its payload holds that translation; a
\* translate poll that returns no translation ends the attempt with a
\* ValueError and no render submit; every new attempt starts at the
\* translate submit.
C17_TranslateBeforeRender == []C17_Order /\ [][C17_Step]_vars

\* C17 witness: the render job of the second attempt, on the second address,
\* was submitted with the translation of that attempt.
C17_Witness ==
    /\ Len(attempts) = 2
    /\ LastAttempt.entry = 2
    /\ submitted.service = "ImageGenerator"
    /\ submitted.source_ip = LastAttempt.ip
    /\ image_gen_payload = RenderPayload("x")
    /\ pc = "render_poll"

\* C20: a poll in progress was given the session hash, the handle and the
\* address of the submit made last, which is the submit of its own stage;
\* and a run has returned success only when its last four calls are the
\* translate submit, translate poll, render submit and render poll of its
\* last attempt, all on that attempt's address, with the two session hashes
\* generated one after the other, a translation that is not empty, the
\* render payload holding it, and a render output for the render submit's
\* handle that holds an image reference.
C20_OneAttemptMakesSuccess ==
    /\ pc \in PollPcs =>
          /\ submitted.service = Service
          /\ submitted.session_hash = PolledToken
          /\ submitted.event_id = PolledHandle
          /\ submitted.source_ip = current_source_ip
          /\ PolledHandle # NoHandle
          /\ PolledToken = hashes_generated
    /\ (result # <<>> /\ result[1].success) =>
          /\ Len(calls) >= 4
          /\ LET n == Len(calls)
                 ip == LastAttempt.ip
             IN  /\ calls[n - 3] = Call("submit", "Translator", ip)
                 /\ calls[n - 2] = Call("poll", "Translator", ip)
                 /\ calls[n - 1] = Call("submit", "ImageGenerator", ip)
                 /\ calls[n] = Call("poll", "ImageGenerator", ip)
                 /\ ip = current_source_ip
          /\ LastAttempt.outcome = "success"
          /\ \A k \in 1..(Len(attempts) - 1) :
                attempts[k].outcome # "success"
          /\ image_gen_session_hash = hashes_generated
          /\ translator_session_hash = hashes_generated - 1
          /\ prompt_for_image # ""
          /\ image_gen_payload = RenderPayload(prompt_for_image)
          /\ submitted.service = "ImageGenerator"
          /\ submitted.event_id = image_gen_event_id
          /\ submitted.session_hash = image_gen_session_hash
          /\ UsableImage
          /\ result[1].imageUrl = ImageUrlOf(image_result_data)

\* C20 witness: the first address was left on a GPUQuotaError after its
\* translation was obtained, and the run succeeded on the second address
\* with the translate and render jobs of that second attempt.
C20_Witness ==
    /\ result # <<>>
    /\ result[1].success
    /\ Len(attempts) = 2
    /\ attempts[1].outcome = "GPUQuotaError"
    /\ hashes_generated = 4
    /\ translator_session_hash = 3
    /\ image_gen_session_hash = 4

\* ----------------------------------------------------- runs (ConcSpec)
RunEnded(r) == runs[r].pc \in {"done", "raised"}

IsPrefix(s, t) == Len(s) <= Len(t) /\ s = SubSeq(t, 1, Len(s))

\* The addresses a run visits when it is the only one, from its snapshot and
\* the outcomes of its attempts: the first address, and after every failed
\* attempt the same address again or the next one, as the handlers decide.
RECURSIVE AloneFromWhile(_, _), AloneInAttempt(_, _, _, _)
AloneFromWhile(avail, outs) ==
    IF avail = <<>> THEN <<>>
    ELSE <<Head(avail)>> \o AloneInAttempt(Tail(avail), outs, Head(avail), 0)

AloneInAttempt(avail, outs, cur, rc) ==
    IF outs = <<>> \/ Head(outs) = "success" THEN <<>>
    ELSE CASE HandlerOf(Head(outs), rc) = "break" ->
                AloneFromWhile(avail, Tail(outs))
           [] HandlerOf(Head(outs), rc) = "sleep_and_retry" ->
                <<cur>> \o AloneInAttempt(avail, Tail(outs), cur, rc + 1)
           [] OTHER -> <<>>

AloneVisits(r) == AloneFromWhile(runs[r].snapshot, runs[r].outcomes)

C14_OwnSnapshot ==
    \A r \in Runs :
       runs[r].pc # "idle" =>
          /\ runs[r].snapshot = Snapshot(IPV6_ADDRESSES)
          /\ runs[r].tried \o ListOf(r) = runs[r].snapshot
          /\ IsPrefix(runs[r].visits, AloneVisits(r))
          /\ Len(runs[r].visits) >= Len(runs[r].outcomes)
          /\ (RunEnded(r) \/ runs[r].pc = "attempt")
                => runs[r].visits = AloneVisits(r)

C14_Step ==
    /\ IPV6_ADDRESSES' = IPV6_ADDRESSES
    /\ current_ipv6_index' = current_ipv6_index
    /\ \A r, q \in Runs :
          (r # q /\ runs'[r] # runs[r]) =>
             /\ runs'[q] = runs[q]
             /\ ListOf(q)' = ListOf(q)

\* C14: with runs interleaved in any way, no step changes the master list or
\* the rotation index, a step of one run changes nothing of another run nor
\* the list another run pops from, the entries a run has popped followed by
\* those it still holds are always its snapshot, which is the master list
\* (or [None]), and the addresses a run visits are those it visits alone
\* with the same outcomes of its attempts.
C14_RunsDoNotInterfere == []C14_OwnSnapshot /\ [][C14_Step]_vars

\* C14 witness: two runs over the same two addresses, interleaved: run 1 is
\* on the second address while run 2 is still on the first.
C14_Witness ==
    /\ Len(IPV6_ADDRESSES) = 2
    /\ runs[1].pc = "attempt"
    /\ runs[1].visits = IPV6_ADDRESSES
    /\ runs[2].pc = "attempt"
    /\ runs[2].visits = <<IPV6_ADDRESSES[1]>>

C19_Bound ==
    \A r \in Runs :
       /\ Len(runs[r].outcomes) <= Len(runs[r].visits)
       /\ Len(runs[r].visits) <= max_retries_per_ip * Len(runs[r].snapshot)
       /\ IPV6_ADDRESSES = <<>> => Len(runs[r].visits) <= 2

\* C19: every submit and poll terminating, every run ends (it returns, or an
\* exception escapes it), and at every moment the attempts it has made are
\* at most max_retries_per_ip times the entries of its snapshot, at most 2
\* when the master list is empty, whatever the outcomes of the attempts.
C19_RunTerminates ==
    /\ []C19_Bound
    /\ <>(\A r \in Runs : RunEnded(r))

\* C19 witness: every run is over, run 1 after one attempt on each of its
\* two entries, both left on a GPUQuotaError.
C19_Witness ==
    /\ \A r \in Runs : RunEnded(r)
    /\ runs[1].pc = "done"
    /\ runs[1].outcomes = <<"GPUQuotaError", "GPUQuotaError">>
    /\ Len(runs[1].visits) = 2
    /\ Len(runs[1].snapshot) = 2

====
